---- MODULE Spec2Model ----
(***************************************************************************)
(* batyr synchronization engine: Worker::run and Worker::pull              *)
(* (src/src/server/worker.cpp) together with the job queue, the job        *)
(* record and the database transaction they drive.                         *)
(*                                                                         *)
(* The job queue (JobStorage), the Job record and the Db transaction       *)
(* handle are declared outside src/; their behaviour is taken from the     *)
(* written specification and from PostgreSQL's documented semantics.       *)
(***************************************************************************)
EXTENDS Integers, Sequences, FiniteSets, TLC

(***************************************************************************)
(* Bounds of the model.                                                    *)
(***************************************************************************)
MaxFeatures == 2        \* features per source dataset
MaxTargetRows == 1      \* rows initially in a target table
MaxAttempts == 2        \* value at which reconnectAttempts stops counting
MaxFaults == 1          \* failures the database and the source driver inject

(***************************************************************************)
(* Values.  NULL is SQL's null; every other value is a string.             *)
(***************************************************************************)
NULL == "NULL"
IdValues == {"1", "2"}
ValValues == {"a", "b"}
GeomHex == "0101"       \* hex WKB of the only geometry the sources carry
DefaultX == "d"

NoJob == 0
Jobs == {1, 2}
Workers == {1, 2}
Layers == {1, 2}
UnknownLayer == 0

\* the GDAL release the server is built against (line 95)
GdalVersionMajor == 2

WaitingMessage == "Waiting to aquire a database connection"
NoTransactionMessage == "Could not start a database transaction"

(***************************************************************************)
(* Target field descriptors (Db::getTableFields) and layouts.  A layout    *)
(* is one layer's pair of target columns and source field definitions.     *)
(* tableFields is listed in the iteration order of the map (by name).      *)
(***************************************************************************)
Field(n, t, pk, d) == [name |-> n, pgTypeName |-> t, isPrimaryKey |-> pk, dflt |-> d]

FieldGeom == Field("geom", "geometry", FALSE, NULL)
FieldId == Field("id", "integer", TRUE, NULL)
FieldVal == Field("val", "text", FALSE, NULL)
FieldX(d) == Field("x", "text", FALSE, d)

OgrIdVal == ("id" :> "OFTInteger") @@ ("val" :> "OFTString")

Layout(tf, ogr, gc) == [tableFields |-> tf, ogrFields |-> ogr, geomFieldCount |-> gc]

\* the plain layer: geometry, one primary key column, one attribute
LayoutPlain == Layout(<<FieldGeom, FieldId, FieldVal>>, OgrIdVal, 1)
\* the target has a column the source has no field for
LayoutExtra(d) == Layout(<<FieldGeom, FieldId, FieldVal, FieldX(d)>>, OgrIdVal, 1)
\* the source's val field has a type pull does not convert
LayoutDate == Layout(<<FieldGeom, FieldId, FieldVal>>,
                     ("id" :> "OFTInteger") @@ ("val" :> "OFTDate"), 1)
\* the source has no field for the primary key column
LayoutNoPkField == Layout(<<FieldGeom, FieldId, FieldVal>>, ("val" :> "OFTString"), 1)
\* the target has no geometry column
LayoutNoGeom == Layout(<<FieldId, FieldVal>>, OgrIdVal, 1)
\* the target has two geometry columns
LayoutTwoGeom == Layout(<<FieldGeom, Field("geom2", "geometry", FALSE, NULL), FieldId, FieldVal>>,
                        OgrIdVal, 1)
\* the source has an attribute field named like the target's geometry column
LayoutGeomField == Layout(<<FieldGeom, FieldId, FieldVal>>,
                          ("geom" :> "OFTString") @@ OgrIdVal, 1)
\* the target has no primary key
LayoutNoPk == Layout(<<FieldGeom, Field("id", "integer", FALSE, NULL), FieldVal>>, OgrIdVal, 1)
\* two geometry columns, and no source field for the primary key column
LayoutTwoGeomNoPkField == Layout(<<FieldGeom, Field("geom2", "geometry", FALSE, NULL), FieldId,
                                   FieldVal>>, ("val" :> "OFTString"), 1)
\* the source's feature definition has two geometry fields
LayoutSourceGeoms == Layout(<<FieldGeom, FieldId, FieldVal>>, OgrIdVal, 2)

ColNames(tf) == {tf[i].name : i \in 1..Len(tf)}
FieldOf(tf, c) == CHOOSE f \in {tf[i] : i \in 1..Len(tf)} : f.name = c

(***************************************************************************)
(* Worker::pull, lines 144-178: the partition of the target columns.       *)
(***************************************************************************)
RECURSIVE NamesWhere(_, _, _)
NamesWhere(tf, i, pk) ==
    IF i > Len(tf) THEN <<>>
    ELSE (IF tf[i].isPrimaryKey = pk THEN <<tf[i].name>> ELSE <<>>)
         \o NamesWhere(tf, i + 1, pk)

PrimaryKeyColumns(tf) == NamesWhere(tf, 1, TRUE)
UpdateColumns(tf) == NamesWhere(tf, 1, FALSE)

RECURSIVE InsertColumnsFrom(_, _, _)
InsertColumnsFrom(tf, ogr, i) ==
    IF i > Len(tf) THEN <<>>
    ELSE (IF tf[i].pgTypeName = "geometry" THEN <<tf[i].name>> ELSE <<>>)
         \o (IF tf[i].name \in DOMAIN ogr THEN <<tf[i].name>> ELSE <<>>)
         \o InsertColumnsFrom(tf, ogr, i + 1)

InsertColumns(tf, ogr) == InsertColumnsFrom(tf, ogr, 1)

GeometryColumns(tf) == {i \in 1..Len(tf) : tf[i].pgTypeName = "geometry"}

MissingPrimaryKeysSource(tf, ogr) ==
    SelectSeq(PrimaryKeyColumns(tf), LAMBDA c : c \notin DOMAIN ogr)

SeqSet(s) == {s[i] : i \in 1..Len(s)}
HasDuplicates(s) == \E i, j \in 1..Len(s) : i < j /\ s[i] = s[j]

\* StringUtils::join
RECURSIVE Join(_, _)
Join(s, sep) ==
    IF s = <<>> THEN ""
    ELSE IF Len(s) = 1 THEN s[1]
    ELSE s[1] \o sep \o Join(Tail(s), sep)

\* the text of the WorkerError of lines 176-177
MissingFieldsMessage(missing) ==
    "The source is missing the following fields required by the primary key: "
        \o Join(missing, ", ")

\* the primary key columns are not looked up among the source fields
PartitionErrorKeyUnchecked(tf, ogr) ==
    IF Cardinality(GeometryColumns(tf)) > 1 THEN "multiple geometry columns"
    ELSE IF PrimaryKeyColumns(tf) = <<>> THEN "Got no primarykey"
    ELSE ""

\* the WorkerError the loop of lines 148-178 ends with, or "" when it passes
PartitionError(tf, ogr) ==
    IF Cardinality(GeometryColumns(tf)) > 1 THEN "multiple geometry columns"
    ELSE IF PrimaryKeyColumns(tf) = <<>> THEN "Got no primarykey"
    ELSE IF MissingPrimaryKeysSource(tf, ogr) # <<>>
         THEN MissingFieldsMessage(MissingPrimaryKeysSource(tf, ogr))
    ELSE ""

(***************************************************************************)
(* Worker::pull, lines 204-248: the value vector of one feature, stored    *)
(* as the scratch row the prepared insert creates.  Columns the insert     *)
(* does not name are NULL: the scratch table has no defaults.              *)
(***************************************************************************)
SupportedTypes == {"OFTString", "OFTInteger", "OFTReal"}

\* GetFieldAsString / std::to_string(GetFieldAsInteger): an unset field is
\* rendered as "" or "0", never as NULL
FormatField(type, v) ==
    IF v # NULL THEN v
    ELSE IF type = "OFTString" THEN "" ELSE "0"

FeatureUnsupported(tf, ogr) ==
    \E c \in SeqSet(InsertColumns(tf, ogr)) :
        /\ FieldOf(tf, c).pgTypeName # "geometry"
        /\ ogr[c] \notin SupportedTypes

ScratchRow(tf, ogr, feature) ==
    [c \in ColNames(tf) |->
        IF c \notin SeqSet(InsertColumns(tf, ogr)) THEN NULL
        ELSE IF FieldOf(tf, c).pgTypeName = "geometry" THEN feature.geom
        ELSE FormatField(ogr[c], feature.fields[c])]

(***************************************************************************)
(* SQL semantics of the three diff statements (lines 266-325).             *)
(***************************************************************************)
\* a row's primary key tuple
PkOf(tf, r) == [i \in 1..Len(PrimaryKeyColumns(tf)) |-> r[PrimaryKeyColumns(tf)[i]]]

\* "is not distinct from": NULL is an ordinary value
PkMatch(tf, t, s) ==
    \A c \in SeqSet(PrimaryKeyColumns(tf)) : t[c] = s[c]
\* "<>" in place of "is distinct from": a comparison with NULL is not true
DiffersNullUnsafe(tf, t, s) ==
    \E c \in SeqSet(UpdateColumns(tf)) : t[c] # NULL /\ s[c] # NULL /\ t[c] # s[c]
Differs(tf, t, s) ==
    \E c \in SeqSet(UpdateColumns(tf)) : t[c] # s[c]

\* "(k) not in (select ...)" in three-valued logic: TRUE only when k is
\* known to differ from every tuple of the subquery
TupleKnownDifferent(k, m) ==
    \E i \in DOMAIN k : k[i] # NULL /\ m[i] # NULL /\ k[i] # m[i]
NotIn(k, keys) == \A m \in keys : TupleKnownDifferent(k, m)

\* scratch rows (by position) that update target row t
UpdateCandidates(tf, t, scratch) ==
    {i \in 1..Len(scratch) : PkMatch(tf, t, scratch[i]) /\ Differs(tf, t, scratch[i])}

UpdatedRows(tf, table, scratch) ==
    {t \in table : UpdateCandidates(tf, t, scratch) # {}}

ApplyUpdate(tf, t, s) ==
    [c \in DOMAIN t |-> IF c \in SeqSet(UpdateColumns(tf)) THEN s[c] ELSE t[c]]

\* the tables the UPDATE can leave: a target row joined with several
\* scratch rows is updated from one of them, whichever the server picks
UpdateOutcomes(tf, table, scratch) ==
    LET U == UpdatedRows(tf, table, scratch)
        picks == {f \in [U -> 1..Len(scratch)] :
                    \A t \in U : f[t] \in UpdateCandidates(tf, t, scratch)}
    IN {(table \ U) \cup {ApplyUpdate(tf, t, scratch[f[t]]) : t \in U} : f \in picks}

\* "update ... set  from ..." with no column to set is not valid SQL
UpdateStatementValid(tf) == UpdateColumns(tf) # <<>>

\* positions of the scratch rows INSERT-MISSING selects
MissingRows(tf, table, scratch) ==
    {i \in 1..Len(scratch) : NotIn(PkOf(tf, scratch[i]), {PkOf(tf, t) : t \in table})}

\* the row INSERT-MISSING creates: the insert columns from the scratch
\* row, the target's default for every other column
InsertedRow(tf, ogr, s) ==
    [c \in ColNames(tf) |->
        IF c \in SeqSet(InsertColumns(tf, ogr)) THEN s[c] ELSE FieldOf(tf, c).dflt]

\* the primary key constraint of the target rejects the statement
InsertViolatesKey(tf, table, scratch) ==
    LET M == MissingRows(tf, table, scratch)
    IN \/ \E i, j \in M : i # j /\ PkOf(tf, scratch[i]) = PkOf(tf, scratch[j])
       \/ \E i \in M : \E c \in SeqSet(PrimaryKeyColumns(tf)) : scratch[i][c] = NULL

InsertMissing(tf, ogr, table, scratch) ==
    table \cup {InsertedRow(tf, ogr, scratch[i]) : i \in MissingRows(tf, table, scratch)}

RemovedRows(tf, table, scratch) ==
    {t \in table : NotIn(PkOf(tf, t), {PkOf(tf, scratch[i]) : i \in 1..Len(scratch)})}

DeleteRemoved(tf, table, scratch) == table \ RemovedRows(tf, table, scratch)


(***************************************************************************)
(* Source datasets, attribute filters and target tables.                   *)
(***************************************************************************)
Feature(i, v) == [fields |-> ("id" :> i) @@ ("val" :> v), geom |-> GeomHex]
AllFeatures == {Feature(i, v) : i \in IdValues, v \in ValValues}
Sources(n) == UNION {[1..k -> AllFeatures] : k \in 0..n}

NoFilter == ""
IdFilter == "id = 1"
BadFilter == "nope ="
Filters == {NoFilter, IdFilter, BadFilter}

\* OGRLayer::SetAttributeFilter: the driver rejects a filter it cannot
\* parse or that names a field the layer does not have
FilterAccepted(filter, ogr) ==
    \/ filter = NoFilter
    \/ filter = IdFilter /\ "id" \in DOMAIN ogr
FilterMatches(filter, feature) ==
    filter = IdFilter => feature.fields["id"] = "1"

\* OGRLayer::GetNextFeature: the position of the next feature after
\* cursor that passes the filter, 0 when the layer is exhausted
NextFeature(src, filter, cursor) ==
    LET rest == {i \in (cursor + 1)..Len(src) : FilterMatches(filter, src[i])}
    IN IF rest = {} THEN 0 ELSE CHOOSE i \in rest : \A k \in rest : i <= k

ColumnDomain(c) ==
    CASE c = "id" -> IdValues
      [] c = "val" -> ValValues \cup {NULL}
      [] c = "x" -> {NULL, DefaultX}
      [] OTHER -> {GeomHex}

PlainRow(i, v) == ("geom" :> GeomHex) @@ ("id" :> i) @@ ("val" :> v)

RowsOf(tf) == {r \in [ColNames(tf) -> IdValues \cup ValValues \cup {NULL, DefaultX, GeomHex}] :
                 \A c \in ColNames(tf) : r[c] \in ColumnDomain(c)}

\* the tables a target can hold: the primary key is unique
Tables(tf, n) ==
    {T \in SUBSET RowsOf(tf) :
        /\ Cardinality(T) <= n
        /\ \A r1, r2 \in T : PkMatch(tf, r1, r2) => r1 = r2}

(***************************************************************************)
(* State.                                                                  *)
(***************************************************************************)
VARIABLES
    workers,     \* the worker threads the server started
    layout,      \* the layers' columns and source fields
    source,      \* per layer: the features of its source dataset
    jobLayer,    \* per job: the layer name it was submitted with
    jobFilter,   \* per job: its attribute filter
    queue,       \* JobStorage: the queued jobs
    closed,      \* JobStorage: the quit flag
    pushed,      \* the jobs submitted so far
    status,      \* Job::status
    message,     \* Job::message
    stats,       \* Job::statistics
    target,      \* per layer: the committed rows of the target table
    pc,          \* per worker: its position in run / pull
    job,         \* per worker: the job variable of run
    attempts,    \* per worker: reconnectAttempts
    connected,   \* per worker: its database connection is alive
    exc,         \* per worker: the exception in flight
    tx,          \* per worker: its open transaction
    loc,         \* per worker: cursor and counters of pull
    stmts,       \* per worker: the statements issued for the current job
    snap,        \* per worker: the target as it was when pull began
    faults       \* failures injected so far

config == <<workers, layout, source, jobLayer, jobFilter>>
queueVars == <<queue, closed, pushed>>
jobVars == <<status, message, stats>>
workerVars == <<pc, job, attempts, connected, exc, tx, loc, stmts, snap>>
vars == <<workers, layout, source, jobLayer, jobFilter, queue, closed, pushed,
          status, message, stats, target, pc, job, attempts, connected, exc,
          tx, loc, stmts, snap, faults>>

Statistics(p, c, u, d) == [pulled |-> p, created |-> c, updated |-> u, deleted |-> d]
NoException == [kind |-> "none", text |-> ""]
Exception(k, t) == [kind |-> k, text |-> t]
NoTransaction == [active |-> FALSE, table |-> {}, temp |-> <<>>]
ZeroLocals == [cursor |-> 0, numPulled |-> 0, numCreated |-> 0, numUpdated |-> 0,
               numDeleted |-> 0]

Terminal == {"FINISHED", "FAILED"}

InitState ==
    /\ queue = <<>> /\ closed = FALSE /\ pushed = {}
    /\ status = [j \in Jobs |-> "NONE"]
    /\ message = [j \in Jobs |-> ""]
    /\ stats = [j \in Jobs |-> Statistics(0, 0, 0, 0)]
    /\ pc = [w \in Workers |-> "pop"]
    /\ job = [w \in Workers |-> NoJob]
    /\ attempts = [w \in Workers |-> 0]
    /\ connected = [w \in Workers |-> FALSE]
    /\ exc = [w \in Workers |-> NoException]
    /\ tx = [w \in Workers |-> NoTransaction]
    /\ loc = [w \in Workers |-> ZeroLocals]
    /\ stmts = [w \in Workers |-> <<>>]
    /\ snap = [w \in Workers |-> {}]
    /\ faults = 0

\* Two workers; the two jobs name different layers (or an unknown one), so
\* that no two transactions are open on one table at a time.
Init ==
    /\ workers = Workers
    /\ layout \in {LayoutPlain, LayoutDate}
    /\ source = [l \in Layers |-> <<Feature("1", "a")>>]
    /\ target = [l \in Layers |-> {PlainRow("1", "b"), PlainRow("2", "b")}]
    /\ jobLayer \in {f \in [Jobs -> Layers \cup {UnknownLayer}] : f[1] = 1 /\ f[2] # 1}
    /\ jobFilter \in {f \in [Jobs -> Filters] : f[2] = NoFilter}
    /\ InitState

DataLayouts == {LayoutPlain, LayoutExtra(NULL), LayoutExtra(DefaultX), LayoutDate,
                LayoutNoPkField}

\* One worker; the same job is submitted twice against one layer, for
\* every source and target within the bounds.
InitData ==
    /\ workers = {1}
    /\ layout \in DataLayouts
    /\ source \in {f \in [Layers -> Sources(MaxFeatures)] : f[2] = <<>>}
    /\ target \in {f \in [Layers -> Tables(layout.tableFields, MaxTargetRows)] : f[2] = {}}
    /\ jobLayer \in {f \in [Jobs -> Layers \cup {UnknownLayer}] : f[1] # 2 /\ f[2] = 1}
    /\ jobFilter = [j \in Jobs |-> NoFilter]
    /\ InitState

SchemaLayouts == {LayoutPlain, LayoutDate, LayoutNoPkField, LayoutNoGeom, LayoutTwoGeom,
                  LayoutGeomField, LayoutNoPk, LayoutTwoGeomNoPkField, LayoutSourceGeoms}

\* One worker; the layer's target and source schemas range over the
\* combinations pull checks for, and over those it does not.
InitLayouts ==
    /\ workers = {1}
    /\ layout \in SchemaLayouts
    /\ source \in {f \in [Layers -> Sources(MaxFeatures)] :
                     f[1] # <<>> /\ f[2] = <<>> /\ \A i \in 1..Len(f[1]) : f[1][i].fields["val"] = "a"}
    /\ target \in {f \in [Layers -> Tables(layout.tableFields, MaxTargetRows)] :
                     f[2] = {} /\ \A r \in f[1] : r["val"] = "b"}
    /\ jobLayer \in {f \in [Jobs -> Layers \cup {UnknownLayer}] : f[1] # 2 /\ f[2] = 1}
    /\ jobFilter = [j \in Jobs |-> NoFilter]
    /\ InitState

(***************************************************************************)
(* The job queue and the front-end (specification sections 4.1 and 6).     *)
(***************************************************************************)
\* submit: the job record is created QUEUED and pushed; ids are handed
\* out in order
Push(j) ==
    /\ ~closed
    /\ j \notin pushed
    /\ \A k \in Jobs : k < j => k \in pushed
    /\ pushed' = pushed \cup {j}
    /\ queue' = Append(queue, j)
    /\ status' = [status EXCEPT ![j] = "QUEUED"]
    /\ UNCHANGED <<faults, closed, message, stats, target, config, workerVars>>

\* shutdown: close the queue
Close ==
    /\ ~closed
    /\ closed' = TRUE
    /\ UNCHANGED <<faults, queue, pushed, jobVars, target, config, workerVars>>

(***************************************************************************)
(* Worker::run, lines 343-390.                                             *)
(***************************************************************************)
At(w, p) == w \in workers /\ pc[w] = p
Goto(w, p) == pc' = [pc EXCEPT ![w] = p]

\* JobStorage::pop: blocks while the queue is empty and open; after close
\* it returns false
PopResult(q, c) == IF c THEN "closed" ELSE IF q = <<>> THEN "block" ELSE "job"

\* the popped job stays in the queue
DequeueKept(q) == q
\* what pop leaves of the queue
Dequeue(q) == Tail(q)

\* lines 344-351
Pop(w) ==
    /\ At(w, "pop")
    /\ \/ /\ PopResult(queue, closed) = "closed"
          /\ Goto(w, "done")
          /\ job' = [job EXCEPT ![w] = NoJob]
          /\ UNCHANGED queue
       \/ /\ PopResult(queue, closed) = "job"
          /\ job' = [job EXCEPT ![w] = Head(queue)]
          /\ queue' = Dequeue(queue)
          /\ Goto(w, "set_in_process")
    /\ exc' = [exc EXCEPT ![w] = NoException]
    /\ stmts' = [stmts EXCEPT ![w] = <<>>]
    /\ loc' = [loc EXCEPT ![w] = ZeroLocals]
    /\ snap' = [snap EXCEPT ![w] = {}]
    /\ UNCHANGED <<faults, closed, pushed, jobVars, target, config, attempts, connected, tx>>

\* lines 354-358
SetInProcess(w) ==
    /\ At(w, "set_in_process")
    /\ status' = [status EXCEPT ![job[w]] = "IN_PROCESS"]
    /\ attempts' = [attempts EXCEPT ![w] = 0]
    /\ Goto(w, "reconnect")
    /\ UNCHANGED <<faults, queueVars, message, stats, target, config, job, connected, exc, tx, loc, stmts, snap>>

\* lines 359-364: one turn of the reconnect loop.  Whether the database
\* answers is the environment's choice.
Reconnect(w) ==
    /\ At(w, "reconnect")
    /\ \/ /\ connected' = [connected EXCEPT ![w] = TRUE]
          /\ Goto(w, "clear_message")
          /\ UNCHANGED <<message, attempts>>
       \/ /\ connected' = [connected EXCEPT ![w] = FALSE]
          /\ message' = IF attempts[w] = 0
                        THEN [message EXCEPT ![job[w]] = WaitingMessage]
                        ELSE message
          /\ attempts' = [attempts EXCEPT ![w] =
                            IF attempts[w] < MaxAttempts THEN attempts[w] + 1 ELSE attempts[w]]
          /\ Goto(w, "sleep")
    /\ UNCHANGED <<faults, queueVars, status, stats, target, config, job, exc, tx, loc, stmts, snap>>

\* line 365: the wait before the next attempt
Sleep(w) ==
    /\ At(w, "sleep")
    /\ Goto(w, "reconnect")
    /\ UNCHANGED <<faults, queueVars, jobVars, target, config, job, attempts, connected, exc, tx, loc, stmts, snap>>

\* the message is left as the loop set it
ClearMessageSkipped(w) ==
    /\ At(w, "clear_message")
    /\ Goto(w, "open_source")
    /\ UNCHANGED <<faults, queueVars, jobVars, target, config, job, attempts, connected, exc, tx, loc, stmts, snap>>

\* line 367
ClearMessage(w) ==
    /\ At(w, "clear_message")
    /\ message' = [message EXCEPT ![job[w]] = ""]
    /\ Goto(w, "open_source")
    /\ UNCHANGED <<faults, queueVars, status, stats, target, config, job, attempts, connected, exc, tx, loc, stmts, snap>>


(***************************************************************************)
(* Exceptions.  Leaving the scope of the transaction handle by an          *)
(* exception rolls the transaction back; the scratch table goes with it.   *)
(***************************************************************************)
Rollback(w) == tx' = [tx EXCEPT ![w] = NoTransaction]

Throw(w, kind, text) ==
    /\ exc' = [exc EXCEPT ![w] = Exception(kind, text)]
    /\ Rollback(w)
    /\ Goto(w, "catch_status")

\* a failure the environment injects, within the bound, or one the
\* program's own input forces
Fault(forced) ==
    /\ forced \/ faults < MaxFaults
    /\ faults' = IF forced THEN faults ELSE faults + 1

\* forced: the statement is one the server always refuses; an injected
\* failure is the loss of the connection
DbError(w, what, forced) ==
    /\ Fault(forced)
    /\ Throw(w, "DbError", what)
    /\ stmts' = [stmts EXCEPT ![w] = Append(@, [stmt |-> what, ok |-> FALSE])]
    /\ connected' = [connected EXCEPT ![w] = forced]

Issued(w, what) == stmts' = [stmts EXCEPT ![w] = Append(@, [stmt |-> what, ok |-> TRUE])]

Tf == layout.tableFields
Ogr == layout.ogrFields
LayerOf(w) == jobLayer[job[w]]
FilterOf(w) == jobFilter[job[w]]

\* UPDATE and INSERT-MISSING change places
PullSequenceSwapped ==
    <<"get_transaction", "create_temp", "get_table_fields", "prepare", "stream",
      "publish_pulled", "insert_missing", "update", "delete_removed", "set_finished",
      "set_statistics", "commit">>

\* the order of the steps of pull inside the transaction (lines 126-329)
PullSequence ==
    <<"get_transaction", "create_temp", "get_table_fields", "prepare", "stream",
      "publish_pulled", "update", "insert_missing", "delete_removed", "set_finished",
      "set_statistics", "commit">>
NextStep(p) ==
    LET i == CHOOSE k \in 1..Len(PullSequence) : PullSequence[k] = p
    IN IF i = Len(PullSequence) THEN "pop" ELSE PullSequence[i + 1]
Continue(w) == Goto(w, NextStep(pc[w]))

\* the statement runs on the connection outside the transaction and is
\* committed at once
ExecOutsideTransaction(w, newTable) ==
    /\ tx' = [tx EXCEPT ![w].table = newTable]
    /\ target' = [target EXCEPT ![LayerOf(w)] = newTable]

\* transaction->exec of a statement that leaves the table as newTable:
\* the change stays inside the transaction
Exec(w, newTable) ==
    /\ tx' = [tx EXCEPT ![w].table = newTable]
    /\ UNCHANGED target


(***************************************************************************)
(* Worker::pull, lines 44-123: open the source.                            *)
(***************************************************************************)
\* the text of the WorkerError of lines 75-89
FilterMessage(filter) ==
    "The given filter is invalid. The applied filter was [ " \o filter \o " ]"

\* the filter is applied whatever the driver makes of it
OpenErrorFilterUnchecked(layer, filter, lay, opened) ==
    IF ~opened THEN "Could not open dataset"
    ELSE IF GdalVersionMajor > 1 /\ lay.geomFieldCount # 1
         THEN "unsupported number of geometry fields"
    ELSE ""

\* the error opening the source ends with, "" when there is none
OpenError(layer, filter, lay, opened) ==
    IF ~opened THEN "Could not open dataset"
    ELSE IF ~FilterAccepted(filter, lay.ogrFields) THEN FilterMessage(filter)
    ELSE IF GdalVersionMajor > 1 /\ lay.geomFieldCount # 1
         THEN "unsupported number of geometry fields"
    ELSE ""

OpenSource(w) ==
    /\ At(w, "open_source")
    /\ \/ /\ LayerOf(w) = UnknownLayer
          /\ Throw(w, "runtime_error", "unknown layer")
          /\ UNCHANGED faults
       \/ /\ LayerOf(w) # UnknownLayer
          /\ \E opened \in BOOLEAN :
                LET err == OpenError(LayerOf(w), FilterOf(w), layout, opened)
                IN /\ Fault(opened)
                   /\ IF err # "" THEN Throw(w, "WorkerError", err)
                      ELSE Goto(w, "get_transaction") /\ UNCHANGED <<exc, tx>>
    /\ snap' = [snap EXCEPT ![w] = IF LayerOf(w) = UnknownLayer THEN {} ELSE target[LayerOf(w)]]
    /\ UNCHANGED <<queueVars, jobVars, target, config, job, attempts, connected, loc, stmts>>

(***************************************************************************)
(* Worker::pull, lines 126-198: transaction, scratch table, columns.       *)
(***************************************************************************)
\* line 126-130
GetTransaction(w) ==
    /\ At(w, "get_transaction")
    /\ \/ /\ tx' = [tx EXCEPT ![w] = [active |-> TRUE, table |-> target[LayerOf(w)],
                                       temp |-> <<>>]]
          /\ loc' = [loc EXCEPT ![w] = ZeroLocals]
          /\ Continue(w)
          /\ UNCHANGED <<connected, faults>>
       \/ /\ Fault(FALSE)
          /\ connected' = [connected EXCEPT ![w] = FALSE]
          /\ Goto(w, "no_transaction_status")
          /\ UNCHANGED <<tx, loc>>
    /\ UNCHANGED <<queueVars, jobVars, target, config, job, attempts, exc, stmts, snap>>

\* line 333
NoTransactionSetStatus(w) ==
    /\ At(w, "no_transaction_status")
    /\ status' = [status EXCEPT ![job[w]] = "FAILED"]
    /\ Goto(w, "no_transaction_message")
    /\ UNCHANGED <<faults, queueVars, message, stats, target, config, job, attempts, connected, exc, tx, loc, stmts, snap>>

\* line 334, then back to the head of the loop of run
NoTransactionSetMessage(w) ==
    /\ At(w, "no_transaction_message")
    /\ message' = [message EXCEPT ![job[w]] = NoTransactionMessage]
    /\ Goto(w, "pop")
    /\ UNCHANGED <<faults, queueVars, status, stats, target, config, job, attempts, connected, exc, tx, loc, stmts, snap>>

\* line 136
CreateTempTable(w) ==
    /\ At(w, "create_temp")
    /\ \/ /\ Issued(w, "create-temp")
          /\ Continue(w)
          /\ UNCHANGED <<exc, tx, connected, faults>>
       \/ DbError(w, "create-temp", FALSE)
    /\ UNCHANGED <<queueVars, jobVars, target, config, job, attempts, loc, snap>>

\* lines 140-178
GetTableFields(w) ==
    /\ At(w, "get_table_fields")
    /\ \/ /\ Issued(w, "table-fields")
          /\ IF PartitionError(Tf, Ogr) # ""
             THEN Throw(w, "WorkerError", PartitionError(Tf, Ogr))
             ELSE Continue(w) /\ UNCHANGED <<exc, tx>>
          /\ UNCHANGED <<connected, faults>>
       \/ DbError(w, "table-fields", FALSE)
    /\ UNCHANGED <<queueVars, jobVars, target, config, job, attempts, loc, snap>>

\* lines 181-198: the server refuses an insert naming a column twice
Prepare(w) ==
    /\ At(w, "prepare")
    /\ \/ /\ ~HasDuplicates(InsertColumns(Tf, Ogr))
          /\ Issued(w, "prepare")
          /\ Continue(w)
          /\ UNCHANGED <<exc, tx, connected, faults>>
       \/ DbError(w, "prepare", HasDuplicates(InsertColumns(Tf, Ogr)))
    /\ UNCHANGED <<queueVars, jobVars, target, config, job, attempts, loc, snap>>

(***************************************************************************)
(* Worker::pull, lines 200-264: stream the features.                       *)
(***************************************************************************)
\* one turn of the loop of lines 201-263, or its exit
Stream(w) ==
    /\ At(w, "stream")
    /\ LET next == NextFeature(source[LayerOf(w)], FilterOf(w), loc[w].cursor)
       IN \/ /\ next = 0
             /\ Continue(w)
             /\ UNCHANGED <<exc, tx, connected, loc, stmts, faults>>
          \/ /\ next # 0
             /\ FeatureUnsupported(Tf, Ogr)
             /\ Throw(w, "WorkerError", "Unsupported OGR field type")
             /\ UNCHANGED <<connected, loc, stmts, faults>>
          \/ /\ next # 0
             /\ ~FeatureUnsupported(Tf, Ogr)
             /\ tx' = [tx EXCEPT ![w].temp =
                         Append(@, ScratchRow(Tf, Ogr, source[LayerOf(w)][next]))]
             /\ loc' = [loc EXCEPT ![w].cursor = next, ![w].numPulled = @ + 1]
             /\ Issued(w, "insert")
             /\ UNCHANGED <<exc, pc, connected, faults>>
          \/ /\ next # 0
             /\ ~FeatureUnsupported(Tf, Ogr)
             /\ DbError(w, "insert", FALSE)
             /\ UNCHANGED loc
    /\ UNCHANGED <<queueVars, jobVars, target, config, job, attempts, snap>>

\* line 264
PublishPulled(w) ==
    /\ At(w, "publish_pulled")
    /\ stats' = [stats EXCEPT ![job[w]] =
                    Statistics(loc[w].numPulled, loc[w].numCreated, loc[w].numUpdated,
                               loc[w].numDeleted)]
    /\ Continue(w)
    /\ UNCHANGED <<faults, queueVars, status, message, target, config, job, attempts, connected, exc, tx, loc, stmts, snap>>


(***************************************************************************)
(* Worker::pull, lines 266-329: the three diff statements and the end.     *)
(***************************************************************************)
\* lines 266-299
ExecUpdate(w) ==
    /\ At(w, "update")
    /\ \/ /\ UpdateStatementValid(Tf)
          /\ \E T \in UpdateOutcomes(Tf, tx[w].table, tx[w].temp) : Exec(w, T)
          /\ loc' = [loc EXCEPT ![w].numUpdated =
                        Cardinality(UpdatedRows(Tf, tx[w].table, tx[w].temp))]
          /\ Issued(w, "update")
          /\ Continue(w)
          /\ UNCHANGED <<exc, connected, faults>>
       \/ /\ DbError(w, "update", ~UpdateStatementValid(Tf))
          /\ UNCHANGED <<loc, target>>
    /\ UNCHANGED <<queueVars, jobVars, config, job, attempts, snap>>

\* lines 301-313
ExecInsertMissing(w) ==
    /\ At(w, "insert_missing")
    /\ \/ /\ ~InsertViolatesKey(Tf, tx[w].table, tx[w].temp)
          /\ Exec(w, InsertMissing(Tf, Ogr, tx[w].table, tx[w].temp))
          /\ loc' = [loc EXCEPT ![w].numCreated =
                        Cardinality(MissingRows(Tf, tx[w].table, tx[w].temp))]
          /\ Issued(w, "insert-missing")
          /\ Continue(w)
          /\ UNCHANGED <<exc, connected, faults>>
       \/ /\ DbError(w, "insert-missing", InsertViolatesKey(Tf, tx[w].table, tx[w].temp))
          /\ UNCHANGED <<loc, target>>
    /\ UNCHANGED <<queueVars, jobVars, config, job, attempts, snap>>

\* lines 315-325
ExecDeleteRemoved(w) ==
    /\ At(w, "delete_removed")
    /\ \/ /\ Exec(w, DeleteRemoved(Tf, tx[w].table, tx[w].temp))
          /\ loc' = [loc EXCEPT ![w].numDeleted =
                        Cardinality(RemovedRows(Tf, tx[w].table, tx[w].temp))]
          /\ Issued(w, "delete-removed")
          /\ Continue(w)
          /\ UNCHANGED <<exc, connected, faults>>
       \/ /\ DbError(w, "delete-removed", FALSE)
          /\ UNCHANGED <<loc, target>>
    /\ UNCHANGED <<queueVars, jobVars, config, job, attempts, snap>>

\* line 327
SetFinished(w) ==
    /\ At(w, "set_finished")
    /\ status' = [status EXCEPT ![job[w]] = "FINISHED"]
    /\ Continue(w)
    /\ UNCHANGED <<faults, queueVars, message, stats, target, config, job, attempts, connected, exc, tx, loc, stmts, snap>>

\* line 328
SetStatistics(w) ==
    /\ At(w, "set_statistics")
    /\ stats' = [stats EXCEPT ![job[w]] =
                    Statistics(loc[w].numPulled, loc[w].numCreated, loc[w].numUpdated,
                               loc[w].numDeleted)]
    /\ Continue(w)
    /\ UNCHANGED <<faults, queueVars, status, message, target, config, job, attempts, connected, exc, tx, loc, stmts, snap>>

\* line 329: the transaction handle leaves its scope without an exception
\* and commits; a commit the server refuses is a DbError
Commit(w) ==
    /\ At(w, "commit")
    /\ \/ /\ target' = [target EXCEPT ![LayerOf(w)] = tx[w].table]
          /\ tx' = [tx EXCEPT ![w] = NoTransaction]
          /\ Issued(w, "commit")
          /\ Continue(w)
          /\ UNCHANGED <<exc, connected, faults>>
       \/ /\ DbError(w, "commit", FALSE)
          /\ UNCHANGED target
    /\ UNCHANGED <<queueVars, jobVars, config, job, attempts, loc, snap>>

(***************************************************************************)
(* Worker::run, lines 371-389: the three handlers.                         *)
(***************************************************************************)
\* lines 373, 378, 383
CatchSetStatus(w) ==
    /\ At(w, "catch_status")
    /\ status' = [status EXCEPT ![job[w]] = "FAILED"]
    /\ Goto(w, "catch_message")
    /\ UNCHANGED <<faults, queueVars, message, stats, target, config, job, attempts, connected, exc, tx, loc, stmts, snap>>

\* every handler throws again
AfterCatchRethrowAll(kind) == "terminated"
\* no handler throws again
AfterCatchSwallowAll(kind) == "pop"

\* where a handler leaves run: DbError and WorkerError go round the loop,
\* any other runtime_error is thrown again (line 388)
AfterCatch(kind) == IF kind \in {"DbError", "WorkerError"} THEN "pop" ELSE "terminated"

\* lines 374, 379, 384-388
CatchSetMessage(w) ==
    /\ At(w, "catch_message")
    /\ message' = [message EXCEPT ![job[w]] = exc[w].text]
    /\ Goto(w, AfterCatch(exc[w].kind))
    /\ UNCHANGED <<faults, queueVars, status, stats, target, config, job, attempts, connected, exc, tx, loc, stmts, snap>>

(***************************************************************************)
(* Specifications.                                                         *)
(***************************************************************************)
WorkerStep(w) ==
    \/ Pop(w) \/ SetInProcess(w) \/ Reconnect(w) \/ Sleep(w) \/ ClearMessage(w)
    \/ OpenSource(w) \/ GetTransaction(w)
    \/ NoTransactionSetStatus(w) \/ NoTransactionSetMessage(w)
    \/ CreateTempTable(w) \/ GetTableFields(w) \/ Prepare(w) \/ Stream(w)
    \/ PublishPulled(w) \/ ExecUpdate(w) \/ ExecInsertMissing(w)
    \/ ExecDeleteRemoved(w) \/ SetFinished(w) \/ SetStatistics(w) \/ Commit(w)
    \/ CatchSetStatus(w) \/ CatchSetMessage(w)

Next ==
    \/ \E j \in Jobs : Push(j)
    \/ Close
    \/ \E w \in Workers : WorkerStep(w)

Spec == Init /\ [][Next]_vars
SpecData == InitData /\ [][Next]_vars
SpecLayouts == InitLayouts /\ [][Next]_vars
\* every started worker thread keeps running; what the database and the
\* front-end do is not constrained
FairSpec == Init /\ [][Next]_vars /\ \A w \in Workers : WF_vars(WorkerStep(w))


(***************************************************************************)
(* Properties.                                                             *)
(***************************************************************************)
Holding(w) == w \in workers /\ job[w] # NoJob
Failed(w) == Holding(w) /\ exc[w].kind # "none"
Last(s) == s[Len(s)]

\* C1: when a statement of a job's transaction fails (or pull fails in any
\* other way), the committed target table is what it was when the job
\* began.
Atomicity ==
    \A w \in workers :
        (Failed(w) /\ LayerOf(w) \in Layers) => target[LayerOf(w)] = snap[w]

\* a commit was refused after the diff statements had changed rows
AtomicityWitness ==
    \E w \in workers :
        /\ Failed(w) /\ exc[w].text = "commit"
        /\ loc[w].numCreated > 0 /\ loc[w].numUpdated > 0

\* the statements of the claim, in their order
DiffStatements ==
    <<"create-temp", "insert", "update", "insert-missing", "delete-removed", "commit">>
IsDiffStatement(e) == e.stmt \in SeqSet(DiffStatements)
MayFollow(a, b) ==
    \/ a = "create-temp" /\ b \in {"insert", "update"}
    \/ a = "insert" /\ b \in {"insert", "update"}
    \/ a = "update" /\ b = "insert-missing"
    \/ a = "insert-missing" /\ b = "delete-removed"
    \/ a = "delete-removed" /\ b = "commit"

\* C2: the statements of one job are issued in the order create-temp,
\* inserts, UPDATE, INSERT-MISSING, DELETE-REMOVED, commit, inside the
\* job's transaction, and nothing is issued after a failed statement.
StatementOrder ==
    \A w \in workers :
        LET log == stmts[w]
            seen == SelectSeq(log, IsDiffStatement)
        IN /\ seen # <<>> => seen[1].stmt = "create-temp"
           /\ \A i \in 1..(Len(seen) - 1) : MayFollow(seen[i].stmt, seen[i + 1].stmt)
           /\ \A i \in 1..(Len(log) - 1) : log[i].ok
           /\ (log # <<>> /\ exc[w].kind = "none" /\ Last(log).stmt # "commit")
                 => tx[w].active
           /\ (log # <<>> /\ ~Last(log).ok) => (~tx[w].active /\ exc[w].kind = "DbError")

\* a job ran through all six kinds of statement, two inserts among them
StatementOrderWitness ==
    \E w \in workers :
        /\ Len(stmts[w]) = 9
        /\ Last(stmts[w]) = [stmt |-> "commit", ok |-> TRUE]


(***************************************************************************)
(* What a job should report, from the source and the target alone.         *)
(***************************************************************************)
\* the features the job's filter lets through, by position
Pulled(w) == {i \in 1..Len(source[LayerOf(w)]) : FilterMatches(FilterOf(w), source[LayerOf(w)][i])}
HasSourceValue(c) == FieldOf(Tf, c).pgTypeName = "geometry" \/ c \in DOMAIN Ogr
SourceValue(f, c) == IF FieldOf(Tf, c).pgTypeName = "geometry" THEN f.geom ELSE f.fields[c]
SourceMatches(t, f) ==
    \A c \in SeqSet(PrimaryKeyColumns(Tf)) : HasSourceValue(c) /\ t[c] = SourceValue(f, c)
SourceDiffers(t, f) ==
    \E c \in SeqSet(UpdateColumns(Tf)) : HasSourceValue(c) /\ t[c] # SourceValue(f, c)

ExpectedUpdated(w) ==
    Cardinality({t \in snap[w] : \E i \in Pulled(w) :
                    LET f == source[LayerOf(w)][i] IN SourceMatches(t, f) /\ SourceDiffers(t, f)})
ExpectedCreated(w) ==
    Cardinality({i \in Pulled(w) : \A t \in snap[w] : ~SourceMatches(t, source[LayerOf(w)][i])})
ExpectedDeleted(w) ==
    Cardinality({t \in snap[w] : \A i \in Pulled(w) : ~SourceMatches(t, source[LayerOf(w)][i])})

\* the worker's job is FINISHED and its final statistics are published
Finished(w) ==
    /\ Holding(w) /\ exc[w].kind = "none"
    /\ status[job[w]] = "FINISHED"
    /\ pc[w] \in {"commit", "pop"}

\* C3: a job that finishes reports updated = the target rows that PK-match
\* a source row and differ from it in a non-PK column, created = the source
\* rows whose key is not in the target, deleted = the target rows whose key
\* is not in the source.
DiffMinimality ==
    \A w \in workers :
        Finished(w) =>
            /\ stats[job[w]].updated = ExpectedUpdated(w)
            /\ stats[job[w]].created = ExpectedCreated(w)
            /\ stats[job[w]].deleted = ExpectedDeleted(w)

\* the table the job leaves: its transaction's before the commit, the
\* committed one after
TableLeft(w) == IF pc[w] = "commit" THEN tx[w].table ELSE target[LayerOf(w)]

\* C4: the second run of a job against an unchanged source leaves the
\* target as the first run left it and reports pulled = N and no row
\* created, updated or deleted.
Idempotence ==
    \A w \in workers :
        ( /\ Finished(w) /\ job[w] = 2
          /\ status[1] = "FINISHED"
          /\ jobLayer[1] = jobLayer[2] /\ jobFilter[1] = jobFilter[2] )
        => /\ stats[2] = Statistics(Cardinality(Pulled(w)), 0, 0, 0)
           /\ TableLeft(w) = snap[w]

\* C5: once a job is FINISHED or FAILED no step changes its status, its
\* message or its statistics.
NoMutationAfterTerminal ==
    [][\A j \in Jobs :
         status[j] \in Terminal =>
            /\ status'[j] = status[j]
            /\ message'[j] = message[j]
            /\ stats'[j] = stats[j]]_vars

\* C6: whenever a job is FINISHED its statistics are the final counters of
\* the pull that ran it.
StatisticsAtomicWithFinished ==
    \A w \in workers :
        (Holding(w) /\ status[job[w]] = "FINISHED") =>
            stats[job[w]] = Statistics(loc[w].numPulled, loc[w].numCreated,
                                       loc[w].numUpdated, loc[w].numDeleted)

\* C7: a job is FINISHED only when its transaction has been committed.
FinishedOnlyWithCommit ==
    \A w \in workers :
        (Holding(w) /\ status[job[w]] = "FINISHED") =>
            /\ stmts[w] # <<>>
            /\ Last(stmts[w]) = [stmt |-> "commit", ok |-> TRUE]

\* C8: after a DbError or a WorkerError the worker is in its handler or
\* back at the pop, never out of the loop, and once it is back the job is
\* FAILED with the error's text as its message.
RecognizedErrorHandled ==
    \A w \in workers :
        (Holding(w) /\ exc[w].kind \in {"DbError", "WorkerError"}) =>
            /\ pc[w] \in {"catch_status", "catch_message", "pop"}
            /\ pc[w] = "pop" =>
                 (status[job[w]] = "FAILED" /\ message[job[w]] = exc[w].text)

\* one worker is back at the pop after a DbError, another after a
\* WorkerError
RecognizedErrorWitness ==
    \E w, v \in workers :
        /\ Holding(w) /\ pc[w] = "pop"
        /\ exc[w] = Exception("DbError", "insert-missing")
        /\ status[job[w]] = "FAILED"
        /\ Holding(v) /\ pc[v] = "pop"
        /\ exc[v].kind = "WorkerError"
        /\ status[job[v]] = "FAILED"

\* C9: after any other runtime_error the job is set FAILED with the
\* error's text, the worker leaves run by the exception, takes no further
\* job, and the job stays FAILED.
UnrecognizedErrorRethrown ==
    /\ [](\A w \in workers :
            (Holding(w) /\ exc[w].kind = "runtime_error") =>
                /\ pc[w] \in {"catch_status", "catch_message", "terminated"}
                /\ pc[w] = "terminated" =>
                     (status[job[w]] = "FAILED" /\ message[job[w]] = exc[w].text))
    /\ [][\A w \in workers :
            pc[w] = "terminated" =>
                (pc'[w] = "terminated" /\ job'[w] = job[w] /\ status'[job[w]] = "FAILED")]_vars

\* a worker has left run by a rethrown exception
UnrecognizedErrorWitness ==
    \E w \in workers :
        /\ pc[w] = "terminated" /\ exc[w].kind = "runtime_error"
        /\ status[job[w]] = "FAILED" /\ message[job[w]] = "unknown layer"

\* every started worker has left run
AllWorkersLeft == \A w \in workers : pc[w] \in {"done", "terminated"}

\* C10: once the queue is closed every worker eventually leaves run.
QueueClosure == closed ~> AllWorkersLeft

\* C11 as stated: a job that fails because a primary key column of the
\* target has no source field fails before any SQL statement was issued
\* for it.
MissingKeyFieldBeforeSql ==
    \A w \in workers :
        (Failed(w) /\ LayerOf(w) \in Layers
           /\ exc[w].text = MissingFieldsMessage(MissingPrimaryKeysSource(Tf, Ogr)))
        => stmts[w] = <<>>

StreamOrDiff == {"insert", "update", "insert-missing", "delete-removed"}

\* C11, amended: a job whose target has a primary key column without a
\* source field is never FINISHED and is FAILED once its worker is back at
\* the pop; pull fails after it created the scratch table and queried the
\* catalog, before it prepares the insert, streams a feature or issues a
\* diff statement, with the target as it was and, unless the target has
\* several geometry columns, with the message that lists the missing
\* columns.
MissingKeyFieldFails ==
    \A w \in workers :
        (Holding(w) /\ LayerOf(w) \in Layers /\ MissingPrimaryKeysSource(Tf, Ogr) # <<>>)
        => /\ status[job[w]] # "FINISHED"
           /\ pc[w] = "pop" => status[job[w]] = "FAILED"
           /\ \A i \in 1..Len(stmts[w]) : stmts[w][i].stmt \in {"create-temp", "table-fields"}
           /\ (exc[w].kind = "WorkerError" /\ stmts[w] # <<>>) =>
                 /\ stmts[w] = <<[stmt |-> "create-temp", ok |-> TRUE],
                                 [stmt |-> "table-fields", ok |-> TRUE]>>
                 /\ ~tx[w].active
                 /\ target[LayerOf(w)] = snap[w]
                 /\ exc[w].text =
                       IF Cardinality(GeometryColumns(Tf)) > 1 THEN "multiple geometry columns"
                       ELSE MissingFieldsMessage(MissingPrimaryKeysSource(Tf, Ogr))
                 /\ pc[w] = "pop" => message[job[w]] = exc[w].text

\* the job has failed with the message naming the column id
MissingKeyFieldWitness ==
    \E w \in workers :
        /\ Holding(w) /\ pc[w] = "pop"
        /\ status[job[w]] = "FAILED"
        /\ message[job[w]] =
              "The source is missing the following fields required by the primary key: id"

\* C12: a job whose target table has no geometry column, or more than one,
\* is never FINISHED, is FAILED once its worker is back at the pop, and no
\* feature is streamed and no diff statement is issued for it.
GeometryFailFast ==
    \A w \in workers :
        (Holding(w) /\ LayerOf(w) \in Layers /\ Cardinality(GeometryColumns(Tf)) # 1)
        => /\ status[job[w]] # "FINISHED"
           /\ pc[w] = "pop" => status[job[w]] = "FAILED"
           /\ \A i \in 1..Len(stmts[w]) : stmts[w][i].stmt \notin StreamOrDiff

\* SQL's "is distinct from", from its truth table
IsDistinctFrom(a, b) ==
    IF a = NULL \/ b = NULL THEN ~(a = NULL /\ b = NULL) ELSE a # b

\* the target rows a scratch row matches on the key and is distinct from in
\* a non-key column
NullSafeChanged(w) ==
    {t \in snap[w] : \E i \in 1..Len(tx[w].temp) :
        /\ \A c \in SeqSet(PrimaryKeyColumns(Tf)) : ~IsDistinctFrom(t[c], tx[w].temp[i][c])
        /\ \E c \in SeqSet(UpdateColumns(Tf)) : IsDistinctFrom(t[c], tx[w].temp[i][c])}

\* C13: right after the UPDATE, the rows it counted are the target rows a
\* key-matching scratch row is distinct from in a non-key column, NULL
\* equal to NULL and distinct from every other value: a row agreeing in
\* every value is left as it was and not counted, a row with a value NULL
\* on one side only is counted once.
NullSafety ==
    \A w \in workers :
        (At(w, "insert_missing") /\ exc[w].kind = "none")
        => /\ loc[w].numUpdated = Cardinality(NullSafeChanged(w))
           /\ \A t \in snap[w] \ NullSafeChanged(w) : t \in tx[w].table

\* a target row whose val is NULL was updated from a scratch row with a
\* value, while its x is NULL on both sides
NullSafetyWitness ==
    \E w \in workers :
        /\ At(w, "insert_missing") /\ exc[w].kind = "none"
        /\ "x" \in ColNames(Tf)
        /\ loc[w].numUpdated = 1
        /\ \E t \in snap[w] : \E i \in 1..Len(tx[w].temp) :
              /\ PkMatch(Tf, t, tx[w].temp[i])
              /\ t["val"] = NULL /\ tx[w].temp[i]["val"] # NULL
              /\ t["x"] = NULL /\ tx[w].temp[i]["x"] = NULL

\* C14: a worker whose job failed with a DbError that cost it the
\* connection does not take the next job from the queue before it has a
\* connection again.
ReconnectBeforePop ==
    [][\A w \in workers :
         (pc[w] = "pop" /\ Holding(w) /\ exc[w].kind = "DbError"
            /\ pc'[w] = "set_in_process")
         => connected[w]]_vars

\* positions of run and pull at which the worker's job is IN_PROCESS
InProcessAt ==
    {"reconnect", "sleep", "clear_message", "open_source", "get_transaction",
     "no_transaction_status", "create_temp", "get_table_fields", "prepare", "stream",
     "publish_pulled", "update", "insert_missing", "delete_removed", "set_finished",
     "catch_status"}

\* C15: no two workers hold the same job, a job is IN_PROCESS only while
\* the one worker that popped it is between its pop and the end of its
\* pull, and that worker's job is IN_PROCESS from there until pull ends.
SingleOwner ==
    /\ \A w, v \in workers : (w # v /\ Holding(w) /\ Holding(v)) => job[w] # job[v]
    /\ \A j \in Jobs :
         status[j] = "IN_PROCESS" => \E w \in workers : job[w] = j /\ pc[w] \in InProcessAt
    /\ \A w \in workers :
         (Holding(w) /\ pc[w] \in InProcessAt \ {"catch_status"})
         => status[job[w]] = "IN_PROCESS"

\* two workers are pulling, each its own job
SingleOwnerWitness ==
    \E w, v \in workers :
        /\ w # v /\ job[w] # job[v]
        /\ pc[w] = "stream" /\ pc[v] = "stream"
        /\ status[job[w]] = "IN_PROCESS" /\ status[job[v]] = "IN_PROCESS"

\* C16: while a worker waits between failed reconnect attempts its job
\* carries the waiting text, and when pull is invoked the job is
\* IN_PROCESS, its message is empty and the last reconnect succeeded.
ReconnectMessage ==
    \A w \in workers :
        /\ At(w, "sleep") => (attempts[w] > 0 /\ message[job[w]] = WaitingMessage)
        /\ At(w, "open_source") =>
              /\ status[job[w]] = "IN_PROCESS"
              /\ message[job[w]] = ""
              /\ connected[w]

\* pull is invoked after reconnect had failed at least once
ReconnectMessageWitness ==
    \E w \in workers : At(w, "open_source") /\ attempts[w] > 0 /\ message[job[w]] = ""

InvalidFilter(w) ==
    /\ Holding(w) /\ LayerOf(w) \in Layers
    /\ FilterOf(w) # NoFilter /\ ~FilterAccepted(FilterOf(w), Ogr)

\* C17: a job whose filter the driver rejects never has a transaction or a
\* statement, never gets past the opening of the source, leaves the target
\* as it was, and ends FAILED with the message that carries the filter.
InvalidFilterFails ==
    \A w \in workers :
        InvalidFilter(w) =>
            /\ ~tx[w].active /\ stmts[w] = <<>>
            /\ pc[w] \in {"set_in_process", "reconnect", "sleep", "clear_message",
                          "open_source", "catch_status", "catch_message", "pop"}
            /\ exc[w].kind # "none" =>
                  /\ exc[w].kind = "WorkerError"
                  /\ exc[w].text \in {FilterMessage(FilterOf(w)), "Could not open dataset"}
                  /\ target[LayerOf(w)] = snap[w]
            /\ pc[w] = "pop" => (status[job[w]] = "FAILED" /\ message[job[w]] = exc[w].text)

\* the job of the filter "nope =" has failed with the filter in its message
InvalidFilterWitness ==
    \E w \in workers :
        /\ InvalidFilter(w) /\ pc[w] = "pop"
        /\ FilterOf(w) = BadFilter
        /\ status[job[w]] = "FAILED"
        /\ message[job[w]] = FilterMessage(BadFilter)

\* C18: a FINISHED job reports created + updated <= pulled.
CreatedUpdatedWithinPulled ==
    \A w \in workers :
        (Holding(w) /\ status[job[w]] = "FINISHED")
        => stats[job[w]].created + stats[job[w]].updated <= stats[job[w]].pulled

\* a job finished with one row created and one updated out of two pulled,
\* on a target with a column the source lacks
CreatedUpdatedWitness ==
    \E w \in workers :
        /\ Finished(w) /\ "x" \in ColNames(Tf)
        /\ stats[job[w]] = Statistics(2, 1, 1, 0)

\* C19: the insert column list pull has built when it prepares the insert
\* names no column twice.
InsertColumnsDistinct ==
    \A w \in workers :
        At(w, "prepare") => ~HasDuplicates(InsertColumns(Tf, Ogr))

\* C20: a FAILED job reports no created, updated or deleted row.
FailedCarriesOnlyPulled ==
    \A j \in Jobs :
        status[j] = "FAILED" =>
            (stats[j].created = 0 /\ stats[j].updated = 0 /\ stats[j].deleted = 0)

====
